---- MODULE Spec2Model ----
(***************************************************************************)
(* HealthAI: the contextual safety and prompt-assembly pipeline.           *)
(*                                                                         *)
(* Texts are TLA+ strings; lower-casing, substring search, the regular     *)
(* expressions of the safety checker and string concatenation are computed *)
(* character by character.  Emoji of the source literals are left out of   *)
(* the string constants (they take part in no comparison of the code).     *)
(***************************************************************************)
EXTENDS Integers, Sequences, FiniteSets, TLC

\* ------------------------------------------------------------------ bounds
MaxLog == 2

\* the patient ids requests are made for
UserIds == {1, 2}

VARIABLES
    users,           \* ids of the rows of table users
    allergyRows,     \* table allergies, in creation order
    medicationRows,  \* table medications, in creation order
    chatLog,         \* table chat_history, in timestamp order
    lastCall,        \* the entry point last called and its arguments
    lastResult,      \* the dict it returned
    steps,           \* the pipeline steps it went through, in order
    sContext,        \* stage harness: a patient context
    sContextOf,      \* stage harness: the user sContext was aggregated for, or 0
    sResponse,       \* stage harness: a raw completion text
    sSafety,         \* stage harness: check_response(sResponse, sContext)
    sFinal,          \* stage harness: the finalized text
    sEntry,          \* stage harness: the entry point whose finalization ran
    sStage,          \* stage harness: what was applied last
    sUnavailable,    \* stage harness: the sources that failed while sContext was built
    sPrompt,         \* stage harness: what the prompt builder did last
    aiClient,        \* ChatService.ai_client: a HealthAIClient, or None
    pc,              \* where the running ChatService.send_message stands
    request,         \* the arguments of the running send_message
    attempts,        \* completion calls _make_request made for it
    sleeps,          \* the delays _make_request slept for it, in order
    errors           \* str(e) of the attempts of it that raised, in order

vars == <<users, allergyRows, medicationRows, chatLog, lastCall, lastResult, steps,
          sContext, sContextOf, sResponse, sSafety, sFinal, sEntry, sStage,
          sUnavailable, sPrompt, aiClient, pc, request, attempts, sleeps, errors>>

storeVars == <<users, allergyRows, medicationRows>>
stageVars == <<sContext, sContextOf, sResponse, sSafety, sFinal, sEntry, sStage,
               sUnavailable, sPrompt>>
clientVars == <<aiClient, pc, request, attempts, sleeps, errors>>
callVars == <<chatLog, lastCall, lastResult, steps>>

\* ------------------------------------------------------------ text helpers
UpperLetters == "ABCDEFGHIJKLMNOPQRSTUVWXYZ"
LowerLetters == "abcdefghijklmnopqrstuvwxyz"
DigitChars == "0123456789"

CharAt(s, i) == SubSeq(s, i, i)

InChars(c, set) == \E k \in 1..Len(set) : CharAt(set, k) = c

\* the lower-case letter of every upper-case letter
LowerOf == [c \in {CharAt(UpperLetters, k) : k \in 1..26} |->
               CharAt(LowerLetters, CHOOSE k \in 1..26 : CharAt(UpperLetters, k) = c)]

LowerChar(c) == IF c \in DOMAIN LowerOf THEN LowerOf[c] ELSE c

RECURSIVE LowerFrom(_, _)
LowerFrom(s, i) == IF i > Len(s) THEN "" ELSE LowerChar(CharAt(s, i)) \o LowerFrom(s, i + 1)

\* str.lower()
Lower(s) == LowerFrom(s, 1)

\* s occurs in t at position i
At(t, i, s) == i >= 1 /\ i + Len(s) - 1 <= Len(t) /\ SubSeq(t, i, i + Len(s) - 1) = s

\* Python's  s in t
Contains(t, s) == \E i \in 1..(Len(t) - Len(s) + 1) : At(t, i, s)

EndsWith(t, s) == Len(s) <= Len(t) /\ At(t, Len(t) - Len(s) + 1, s)

StartsWith(t, s) == At(t, 1, s)

\* t[:n]
Truncate(t, n) == IF Len(t) <= n THEN t ELSE SubSeq(t, 1, n)

\* str.strip()
RECURSIVE Strip(_)
Strip(t) ==
    IF t = "" THEN t
    ELSE IF CharAt(t, 1) \in {" ", "\n", "\t"} THEN Strip(SubSeq(t, 2, Len(t)))
    ELSE IF CharAt(t, Len(t)) \in {" ", "\n", "\t"} THEN Strip(SubSeq(t, 1, Len(t) - 1))
    ELSE t

\* dict.get(key, default): the default is used only when the key is absent
Get(d, key, default) == IF key \in DOMAIN d THEN d[key] ELSE default

\* sep.join(lines)
RECURSIVE Join(_, _)
Join(lines, sep) ==
    IF lines = <<>> THEN ""
    ELSE IF Len(lines) = 1 THEN lines[1]
    ELSE lines[1] \o sep \o Join(Tail(lines), sep)

\* list[:n] and list[-n:]
FirstItems(list, n) == IF Len(list) <= n THEN list ELSE SubSeq(list, 1, n)
LastItems(list, n) == IF Len(list) <= n THEN list ELSE SubSeq(list, Len(list) - n + 1, Len(list))

IsDigit(c) == InChars(c, DigitChars)
IsSpace(c) == c = " " \/ c = "\n" \/ c = "\t"
IsWordChar(c) == InChars(c, LowerLetters) \/ InChars(c, UpperLetters) \/ IsDigit(c) \/ c = "_"

\* positions j such that t[i..j-1] is a run of at least min digits
DigitRun(t, i, min) ==
    {j \in (i + min)..(Len(t) + 1) : \A k \in i..(j - 1) : IsDigit(CharAt(t, k))}
SpaceRun(t, i, min) ==
    {j \in (i + min)..(Len(t) + 1) : \A k \in i..(j - 1) : IsSpace(CharAt(t, k))}
WordAt(t, i) == i <= Len(t) /\ IsWordChar(CharAt(t, i))

\* ---------------------------------------------------------- safety checker
EMERGENCY_KEYWORDS ==
    <<"chest pain", "difficulty breathing", "severe bleeding", "loss of consciousness",
      "severe headache", "stroke symptoms", "heart attack", "suicidal",
      "severe allergic reaction", "anaphylaxis", "seizure", "severe abdominal pain",
      "coughing blood", "sudden vision loss", "severe burns", "poisoning", "overdose">>

\* for keyword in keywords: if keyword in text_lower: return True -- the position of
\* the keyword that ends the loop, 0 when the loop runs to its end
RECURSIVE FirstKeyword(_, _, _)
FirstKeyword(text_lower, keywords, k) ==
    IF k > Len(keywords) THEN 0
    ELSE IF Contains(text_lower, keywords[k]) THEN k
    ELSE FirstKeyword(text_lower, keywords, k + 1)

detect_emergency_symptomsMut(text) == FirstKeyword(text, EMERGENCY_KEYWORDS, 1) # 0
detect_emergency_symptoms(text) ==
    LET text_lower == Lower(text)
    IN  FirstKeyword(text_lower, EMERGENCY_KEYWORDS, 1) # 0

\* re.search(pattern, response, re.IGNORECASE) for the six patterns
MEDICATION_PRESCRIPTION_PATTERNS(t) ==
    \E i \in 1..Len(t) :
        \/ /\ At(t, i, "take ")
           /\ \E j \in DigitRun(t, i + 5, 1) : \E k \in SpaceRun(t, j, 0) : At(t, k, "mg")
        \/ At(t, i, "prescribe ") /\ WordAt(t, i + 10)
        \/ At(t, i, "dosage of ") /\ DigitRun(t, i + 10, 1) # {}
        \/ At(t, i, "start taking ") /\ WordAt(t, i + 13)
        \/ \E j \in DigitRun(t, i, 1) : \E k \in SpaceRun(t, j, 0) :
              /\ At(t, k, "mg")
              /\ \E l \in SpaceRun(t, k + 2, 1) :
                    /\ At(t, l, "of")
                    /\ \E m \in SpaceRun(t, l + 2, 1) : WordAt(t, m)
        \/ At(t, i, "you should take ") /\ WordAt(t, i + 16)

_check_medication_prescription(response) == MEDICATION_PRESCRIPTION_PATTERNS(Lower(response))

PRESCRIPTION_FLAG == "Response contains medication prescription language"
INTERACTION_FLAG ==
    "Response should remind patient to discuss with doctor about current medications"
EMERGENCY_FLAG == "Response should include emergency care disclaimer"

AllergyFlag(allergen, severity) ==
    "ALLERGY ALERT: Patient allergic to " \o allergen \o " (" \o severity \o ")"

RECURSIVE AllergyConflictsFrom(_, _, _)
AllergyConflictsFrom(response, allergies, i) ==
    IF i > Len(allergies) THEN <<>>
    ELSE LET allergen == Lower(allergies[i].allergen)
             hit == allergen # "" /\ Contains(Lower(response), allergen)
         IN  (IF hit THEN <<AllergyFlag(allergen, allergies[i].severity)>> ELSE <<>>)
             \o AllergyConflictsFrom(response, allergies, i + 1)

_check_allergy_conflicts(response, patient_context) ==
    AllergyConflictsFrom(response, patient_context.allergies, 1)

TREATMENT_WORDS == <<"treatment", "medication", "drug", "medicine">>

_check_medication_interactions(response, patient_context) ==
    IF /\ patient_context.current_medications # <<>>
       /\ LET response_lower == Lower(response)
          IN  \E k \in 1..Len(TREATMENT_WORDS) : Contains(response_lower, TREATMENT_WORDS[k])
    THEN <<INTERACTION_FLAG>>
    ELSE <<>>

serious_keywords == <<"severe", "serious", "emergency", "urgent", "immediate", "critical">>

_needs_emergency_disclaimer(response) ==
    LET response_lower == Lower(response)
    IN  \E k \in 1..Len(serious_keywords) : Contains(response_lower, serious_keywords[k])

AnyFlagContains(flags, word) == \E k \in 1..Len(flags) : Contains(Lower(flags[k]), word)

_generate_recommendations(flags) ==
    (IF AnyFlagContains(flags, "prescription")
     THEN <<"Remove specific medication names and dosages. Use general medication classes instead.">>
     ELSE <<>>)
    \o (IF AnyFlagContains(flags, "allergy")
        THEN <<"Add prominent allergy warning at the beginning of response.">>
        ELSE <<>>)
    \o (IF AnyFlagContains(flags, "interaction")
        THEN <<"Add reminder to discuss with healthcare provider about current medications.">>
        ELSE <<>>)
    \o (IF AnyFlagContains(flags, "emergency")
        THEN <<"Add clear guidance on when to seek emergency medical care.">>
        ELSE <<>>)

\* severity = "medium" if severity == "low" else severity
RaiseToMediumMut(severity) == "medium"
RaiseToMediumKeepMut(severity) == severity
RaiseToMedium(severity) == IF severity = "low" THEN "medium" ELSE severity

check_response(response, patient_context) ==
    LET prescription == _check_medication_prescription(response)
        flags1 == IF prescription THEN <<PRESCRIPTION_FLAG>> ELSE <<>>
        severity1 == IF prescription THEN "high" ELSE "low"
        allergy_conflicts == _check_allergy_conflicts(response, patient_context)
        flags2 == flags1 \o allergy_conflicts
        severity2 == IF allergy_conflicts # <<>> THEN "high" ELSE severity1
        interaction_warnings == _check_medication_interactions(response, patient_context)
        flags3 == flags2 \o interaction_warnings
        severity3 == IF interaction_warnings # <<>> THEN RaiseToMedium(severity2) ELSE severity2
        needs == _needs_emergency_disclaimer(response)
        flags4 == IF needs THEN Append(flags3, EMERGENCY_FLAG) ELSE flags3
        severity4 == IF needs THEN RaiseToMedium(severity3) ELSE severity3
    IN  [has_concerns |-> Len(flags4) > 0,
         flags |-> flags4,
         severity |-> severity4,
         recommendations |-> _generate_recommendations(flags4)]

\* ------------------------------------------------- SafetyWarningGenerator
EMERGENCY_WARNING ==
    "\n\n**IMPORTANT**: If you experience severe or worsening symptoms, seek immediate medical attention by calling emergency services or going to the nearest emergency room.\n"
MEDICATION_DISCLAIMER ==
    "\n\n**MEDICATION REMINDER**: Never start, stop, or change medications without consulting your healthcare provider. This information is for educational purposes only.\n"
GENERAL_DISCLAIMER ==
    "\n\n---\n*This information is for educational purposes only and is not a substitute for professional medical advice, diagnosis, or treatment. Always consult your healthcare provider with any questions about your health.*"

add_emergency_warningMut(response) == response \o EMERGENCY_WARNING
add_emergency_warning(response) == EMERGENCY_WARNING \o response

add_medication_disclaimer(response) == response \o MEDICATION_DISCLAIMER

add_general_disclaimerMut(response) == GENERAL_DISCLAIMER \o response
add_general_disclaimer(response) == response \o GENERAL_DISCLAIMER

\* the block _add_safety_warnings puts in front of the text for one flag
AlertBlock(flag) == "\n\n" \o flag \o "\n\n"

RECURSIVE AddAllergyAlerts(_, _, _)
AddAllergyAlerts(warnings_added, flags, i) ==
    IF i > Len(flags) THEN warnings_added
    ELSE AddAllergyAlerts(
             IF Contains(flags[i], "ALLERGY ALERT") /\ Contains(flags[i], ":")
             THEN AlertBlock(flags[i]) \o warnings_added
             ELSE warnings_added,
             flags, i + 1)

_add_safety_warnings(response, safety_result, patient_context) ==
    LET warnings_added == AddAllergyAlerts(response, safety_result.flags, 1)
    IN  IF safety_result.severity = "high"
        THEN add_emergency_warning(warnings_added)
        ELSE warnings_added

\* ------------------------------------------------------------ repositories
ReverseMut(seq) == seq
Reverse(seq) == [i \in 1..Len(seq) |-> seq[Len(seq) + 1 - i]]

\* filter(Model.user_id == user_id)
RowsOf(rows, user_id) ==
    LET Mine(r) == r.user_id = user_id
    IN  SelectSeq(rows, Mine)

\* BaseRepository.__init__ sets these attributes on every repository
BaseRepositoryAttributes == {"model", "session"}

\* self.db.query(...) inside a try: an AttributeError is caught and [] returned
HasDb == "db" \in BaseRepositoryAttributes

\* severities in ascending string order, the order desc(Allergy.severity) reverses
SeverityAscending == <<"life-threatening", "mild", "moderate", "severe">>

RECURSIVE BySeverityDesc(_, _)
BySeverityDesc(rows, k) ==
    IF k = 0 THEN <<>>
    ELSE LET Keep(r) == r.severity = SeverityAscending[k]
         IN  Reverse(SelectSeq(rows, Keep)) \o BySeverityDesc(rows, k - 1)

AllergyRepository_get_by_user(user_id) ==
    IF HasDb
    THEN BySeverityDesc(RowsOf(allergyRows, user_id), Len(SeverityAscending))
    ELSE <<>>

MedicationRepository_get_active_medications(user_id) ==
    IF HasDb
    THEN LET Active(r) == r.status = "active"
         IN  Reverse(SelectSeq(RowsOf(medicationRows, user_id), Active))
    ELSE <<>>

\* MedicalHistoryRepository.get_active_conditions and SymptomRepository.get_recent_symptoms
\* query through self.db in the same way; no condition or symptom rows are kept here
MedicalHistoryRepository_get_active_conditions(user_id) == <<>>
SymptomRepository_get_recent_symptoms(user_id, days) == <<>>

Exchange(user_id, message, response) ==
    [user_id |-> user_id, message |-> message, response |-> response]

\* ChatRepository.add_message: commit and return the refreshed row, which carries the
\* primary key the database assigned, or rollback and re-raise
add_messageMut(log, user_id, message, response, db_ok) ==
    [raised |-> ~db_ok, log |-> Append(log, Exchange(user_id, message, response)),
     chat |-> [id |-> Len(log) + 1, user_id |-> user_id]]
add_message(log, user_id, message, response, db_ok) ==
    IF db_ok
    THEN [raised |-> FALSE, log |-> Append(log, Exchange(user_id, message, response)),
          chat |-> [id |-> Len(log) + 1, user_id |-> user_id]]
    ELSE [raised |-> TRUE, log |-> log]

\* ChatRepository.delete_user_history: delete the user's rows and commit, or rollback
\* and re-raise
delete_user_historyMut(log, user_id, db_ok) ==
    IF db_ok
    THEN [raised |-> FALSE, count |-> Len(log), log |-> <<>>]
    ELSE [raised |-> TRUE, count |-> 0, log |-> log]
delete_user_history(log, user_id, db_ok) ==
    LET Others(r) == r.user_id # user_id
    IN  IF db_ok
        THEN [raised |-> FALSE, count |-> Len(RowsOf(log, user_id)),
              log |-> SelectSeq(log, Others)]
        ELSE [raised |-> TRUE, count |-> 0, log |-> log]

\* ChatRepository.get_user_history: newest first, at most limit
get_user_historyMut(log, user_id, limit) == Reverse(RowsOf(log, user_id))
get_user_history(log, user_id, limit) ==
    LET mine == Reverse(RowsOf(log, user_id))
    IN  IF Len(mine) <= limit THEN mine ELSE SubSeq(mine, 1, limit)

\* ------------------------------------------------- MedicalContextService
None == "None"
UserAge(user_id) == IF user_id = 1 THEN "34" ELSE "61"
UserGender(user_id) == IF user_id = 1 THEN "female" ELSE "male"
UserFullName(user_id) == IF user_id = 1 THEN "Asha Rao" ELSE "Ravi Kumar"

_empty_contextMut ==
    [user_id |-> None, age |-> "0", gender |-> None, full_name |-> None,
     medical_history |-> <<>>, current_medications |-> <<>>, allergies |-> <<>>,
     recent_symptoms |-> <<>>, conversation_context |-> <<>>]
_empty_context ==
    [user_id |-> None, age |-> None, gender |-> None, full_name |-> None,
     medical_history |-> <<>>, current_medications |-> <<>>, allergies |-> <<>>,
     recent_symptoms |-> <<>>, conversation_context |-> <<>>]

_get_allergies_list(user_id) ==
    LET rows == AllergyRepository_get_by_user(user_id)
    IN  [i \in 1..Len(rows) |->
            [allergen |-> rows[i].allergen, allergen_type |-> rows[i].allergen_type,
             reaction |-> rows[i].reaction, severity |-> rows[i].severity]]

_get_current_medications_list(user_id) ==
    LET rows == MedicationRepository_get_active_medications(user_id)
    IN  [i \in 1..Len(rows) |->
            [medication_name |-> rows[i].medication_name, dosage |-> rows[i].dosage,
             frequency |-> rows[i].frequency, route |-> rows[i].route]]

\* symptoms[:10] of the recent symptoms, as dicts
_get_recent_symptoms_list(user_id) ==
    LET rows == SymptomRepository_get_recent_symptoms(user_id, 30)
        shown == IF Len(rows) <= 10 THEN rows ELSE SubSeq(rows, 1, 10)
    IN  [i \in 1..Len(shown) |->
            [symptom_description |-> shown[i].symptom_description,
             severity |-> shown[i].severity, logged_at |-> shown[i].logged_at,
             body_part |-> shown[i].body_part]]

_get_conversation_context_list(log, user_id) ==
    LET rows == get_user_history(log, user_id, 5)
    IN  [i \in 1..Len(rows) |->
            [message |-> rows[i].message, response |-> Truncate(rows[i].response, 200)]]

\* the sources get_patient_context reads; each can be unavailable (its query raises)
Sources == {"users", "conditions", "medications", "allergies", "symptoms", "exchanges"}
AllAvailable == {}

\* The query for the user and ChatRepository.get_user_history are not guarded: their
\* exception reaches the except of get_patient_context.  The other four repositories
\* catch the exception of their own query and return [].
get_patient_context(log, user_id, unavailable) ==
    IF "users" \in unavailable \/ user_id \notin users \/ "exchanges" \in unavailable
    THEN _empty_context
    ELSE [user_id |-> user_id, age |-> UserAge(user_id), gender |-> UserGender(user_id),
          full_name |-> UserFullName(user_id),
          medical_history |->
              IF "conditions" \in unavailable THEN <<>>
              ELSE MedicalHistoryRepository_get_active_conditions(user_id),
          current_medications |->
              IF "medications" \in unavailable THEN <<>>
              ELSE _get_current_medications_list(user_id),
          allergies |->
              IF "allergies" \in unavailable THEN <<>> ELSE _get_allergies_list(user_id),
          recent_symptoms |->
              IF "symptoms" \in unavailable THEN <<>>
              ELSE _get_recent_symptoms_list(user_id),
          conversation_context |-> _get_conversation_context_list(log, user_id)]

\* MedicalContextService summaries, read from the repositories
get_medical_history_summary(user_id) ==
    LET conditions == MedicalHistoryRepository_get_active_conditions(user_id)
    IN  IF conditions = <<>> THEN "No significant active medical conditions reported"
        ELSE Join([i \in 1..Len(conditions) |->
                 "- " \o conditions[i].condition_name \o " (" \o conditions[i].status \o ")"
                     \o (IF conditions[i].severity = None THEN ""
                         ELSE " (" \o conditions[i].severity \o ")")], "\n")

get_current_medications_summary(user_id) ==
    LET medications == MedicationRepository_get_active_medications(user_id)
        Blank(value) == IF value = None THEN "" ELSE value
    IN  IF medications = <<>> THEN "No current medications reported"
        ELSE Join([i \in 1..Len(medications) |->
                 Strip("- " \o medications[i].medication_name
                            \o " " \o Blank(medications[i].dosage)
                            \o " " \o Blank(medications[i].frequency))], "\n")

get_allergies_summary(user_id) ==
    LET allergies == AllergyRepository_get_by_user(user_id)
    IN  IF allergies = <<>> THEN "No known allergies"
        ELSE Join([i \in 1..Len(allergies) |->
                 "- " \o allergies[i].allergen \o " (" \o allergies[i].severity \o "): "
                     \o (IF allergies[i].reaction = None THEN ""
                         ELSE Truncate(allergies[i].reaction, 50))], "\n")

\* ------------------------------------------------------- prompt builder
\* the placeholders of each template
SYSTEM_PROMPT ==
    {"age", "gender", "medical_history", "current_medications", "allergies",
     "recent_symptoms", "conversation_context"}
SYMPTOM_ANALYSIS_PROMPT ==
    {"symptoms", "age", "gender", "medical_history", "current_medications", "allergies"}
TREATMENT_PLAN_PROMPT ==
    {"condition", "age", "gender", "medical_history", "current_medications", "allergies",
     "lifestyle_factors"}

\* the keyword arguments each build function passes to str.format
build_system_prompt ==
    {"age", "gender", "medical_history", "current_medications", "allergies", "recent_symptoms"}
build_symptom_analysis_prompt ==
    {"symptoms", "age", "gender", "medical_history", "current_medications"}
build_treatment_plan_prompt ==
    {"condition", "age", "gender", "medical_history", "current_medications", "allergies"}

\* str.format raises KeyError when a placeholder has no keyword argument
FormatRaises(template, kwargs) == ~(template \subseteq kwargs)

FOLLOW_UP_PROMPT ==
    {"previous_conversation_summary", "current_message", "age", "gender", "medical_history",
     "current_medications"}
build_follow_up_prompt == {"previous_conversation_summary", "current_message"}

\* PromptFormatter
format_medical_history(conditions) ==
    IF conditions = <<>> THEN "No significant medical history reported"
    ELSE Join([i \in 1..Len(conditions) |->
                  "- " \o Get(conditions[i], "condition_name", "Unknown condition")
                       \o " (" \o Get(conditions[i], "status", "unknown") \o ")"], "\n")

format_medications(medications) ==
    IF medications = <<>> THEN "No current medications reported"
    ELSE Join([i \in 1..Len(medications) |->
                  Strip("- " \o Get(medications[i], "medication_name", "Unknown")
                             \o " " \o Get(medications[i], "dosage", "")
                             \o " " \o Get(medications[i], "frequency", ""))], "\n")

format_allergiesMut(allergies) ==
    IF allergies = <<>> THEN ""
    ELSE Join([i \in 1..Len(allergies) |-> "- " \o Get(allergies[i], "allergen", "Unknown")], "\n")
format_allergies(allergies) ==
    IF allergies = <<>> THEN "No known allergies"
    ELSE Join([i \in 1..Len(allergies) |->
                  Strip("- " \o Get(allergies[i], "allergen", "Unknown")
                             \o " (" \o Get(allergies[i], "severity", "unknown severity")
                             \o "): " \o Get(allergies[i], "reaction", ""))], "\n")

format_recent_symptoms(symptoms) ==
    IF symptoms = <<>> THEN "No recent symptoms logged"
    ELSE LET shown == FirstItems(symptoms, 5)
         IN  Join([i \in 1..Len(shown) |->
                      "- " \o Get(shown[i], "logged_at", "") \o ": "
                           \o Get(shown[i], "symptom_description", "")], "\n")

format_conversation_context(conversations) ==
    IF conversations = <<>> THEN "First conversation with patient"
    ELSE LET shown == LastItems(conversations, 3)
         IN  Join([i \in 1..Len(shown) |->
                      "Patient: " \o Get(shown[i], "message", "") \o "\nDr. HealthAI: "
                          \o Truncate(Get(shown[i], "response", ""), 150) \o "...\n"], "\n")

\* PromptBuilder._summarize_conversations
_summarize_conversations(conversations) ==
    IF conversations = <<>> THEN "First conversation with patient"
    ELSE LET shown == LastItems(conversations, 3)
         IN  Join([i \in 1..Len(shown) |->
                      "Patient: " \o Truncate(Get(shown[i], "message", ""), 100)
                          \o "...\nDr. HealthAI: "
                          \o Truncate(Get(shown[i], "response", ""), 150) \o "..."], "\n\n")

\* the keyword arguments of each build function, with their values
SystemPromptArguments(patient_context) ==
    [age |-> Get(patient_context, "age", "Unknown"),
     gender |-> Get(patient_context, "gender", "Unknown"),
     medical_history |-> format_medical_history(Get(patient_context, "medical_history", <<>>)),
     current_medications |->
         format_medications(Get(patient_context, "current_medications", <<>>)),
     allergies |-> format_allergies(Get(patient_context, "allergies", <<>>)),
     recent_symptoms |->
         format_recent_symptoms(Get(patient_context, "recent_symptoms", <<>>))]

SymptomAnalysisArguments(symptoms, patient_context) ==
    [symptoms |-> symptoms,
     age |-> Get(patient_context, "age", "Unknown"),
     gender |-> Get(patient_context, "gender", "Unknown"),
     medical_history |-> format_medical_history(Get(patient_context, "medical_history", <<>>)),
     current_medications |->
         format_medications(Get(patient_context, "current_medications", <<>>))]

TreatmentPlanArguments(condition, patient_context) ==
    [condition |-> condition,
     age |-> Get(patient_context, "age", "Unknown"),
     gender |-> Get(patient_context, "gender", "Unknown"),
     medical_history |-> format_medical_history(Get(patient_context, "medical_history", <<>>)),
     current_medications |->
         format_medications(Get(patient_context, "current_medications", <<>>)),
     allergies |-> format_allergies(Get(patient_context, "allergies", <<>>))]

FollowUpArguments(current_message, conversation_history) ==
    [previous_conversation_summary |-> _summarize_conversations(conversation_history),
     current_message |-> current_message]

\* the task types and, for each, its template and the arguments its build function passes
Tasks == {"chat", "symptom_analysis", "treatment_plan", "follow_up"}
TemplateOf(task) ==
    CASE task = "chat" -> SYSTEM_PROMPT
      [] task = "symptom_analysis" -> SYMPTOM_ANALYSIS_PROMPT
      [] task = "treatment_plan" -> TREATMENT_PLAN_PROMPT
      [] task = "follow_up" -> FOLLOW_UP_PROMPT
ArgumentsOf(task, input, patient_context) ==
    CASE task = "chat" -> SystemPromptArguments(patient_context)
      [] task = "symptom_analysis" -> SymptomAnalysisArguments(input, patient_context)
      [] task = "treatment_plan" -> TreatmentPlanArguments(input, patient_context)
      [] task = "follow_up" -> FollowUpArguments(input, patient_context.conversation_context)

\* ------------------------------------------------------------- AI client
\* the methods class HealthAIClient defines
HealthAIClient ==
    {"_make_request", "chat_with_patient", "analyze_symptoms", "generate_treatment_plan",
     "get_health_advice"}

\* self.ai_client.chat_completion(...) raises AttributeError when the method is missing
chat_completion_raises == "chat_completion" \notin HealthAIClient

\* config.AI_MAX_RETRIES and config.AI_RETRY_DELAY, at their defaults
AI_MAX_RETRIES == 3
AI_RETRY_DELAY == 2

\* HealthAIClient.__init__: max_retries or config.AI_MAX_RETRIES (None and 0 are falsy)
HealthAIClient_init(max_retries, retry_delay) ==
    [max_retries |-> IF max_retries = 0 THEN AI_MAX_RETRIES ELSE max_retries,
     retry_delay |-> IF retry_delay = 0 THEN AI_RETRY_DELAY ELSE retry_delay]

\* get_ai_client(): the constructor raises ValueError without an API key, and the
\* factory returns None (NoClient) then
NoClient == [none |-> TRUE]
get_ai_client(api_key) == IF api_key = "" THEN NoClient ELSE HealthAIClient_init(0, 0)

NO_CONTENT_RESPONSE ==
    "I apologize, but I couldn't generate a response. Please try again or rephrase your question."
NO_CHOICES_RESPONSE == "I apologize, but I couldn't generate a response. Please try again."
DIFFICULTIES_RESPONSE ==
    "I'm experiencing technical difficulties. Please try again in a moment. Error: "

\* _make_request: what it returns for a response of the API that did not raise
ResponseContent(response) ==
    IF response.choices > 0
    THEN IF response.content # "" THEN response.content ELSE NO_CONTENT_RESPONSE
    ELSE NO_CHOICES_RESPONSE

\* _make_request: what it returns when the last attempt raised e
AllRetriesFailed(e) == DIFFICULTIES_RESPONSE \o e

\* time.sleep(self.retry_delay * (attempt + 1)), attempt counted from 0
RetryDelayMut(retry_delay, attempt) == retry_delay
RetryDelay(retry_delay, attempt) == retry_delay * (attempt + 1)

\* if attempt < self.max_retries - 1: sleep and go round again
RetriesLeft(client, attempt) == attempt < client.max_retries - 1

\* --------------------------------------------------- EnhancedChatService
\* the texts passed to the entry points
Inputs == {"I feel tired today", "I have CHEST PAIN", "possible overdose", "   "}

has_emergencyMut ==
    [message \in Inputs |->
        \E k \in 1..Len(EMERGENCY_KEYWORDS) : Contains(message, EMERGENCY_KEYWORDS[k])]
\* self.safety_checker.detect_emergency_symptoms(message), tabulated over the inputs
has_emergency == [message \in Inputs |-> detect_emergency_symptoms(message)]

EMERGENCY_RESPONSE ==
    "\n**EMERGENCY - SEEK IMMEDIATE MEDICAL ATTENTION**\n\n"
    \o "Your symptoms may indicate a medical emergency. Please:\n\n"
    \o "1. **Call emergency services (911) immediately** or go to the nearest emergency room\n"
    \o "2. Do NOT wait or try to treat this at home\n"
    \o "3. If alone, call someone to be with you or unlock your door for emergency responders\n\n"
    \o "**While waiting for help:**\n- Stay calm\n- Sit or lie down in a comfortable position\n"
    \o "- Do not eat or drink anything\n- Have your medication list ready if possible\n\n"
    \o "**This is NOT the time for online medical advice. Get professional help NOW.**\n\n"
    \o "---\n*If this is not an emergency, please rephrase your question and I'll be happy to help.*\n        "

CHAT_ERROR_RESPONSE ==
    "I apologize, but I encountered an error. Please try again or consult a healthcare provider."
SYMPTOM_ERROR_RESPONSE == "Unable to analyze symptoms. Please consult a healthcare provider."
PLAN_ERROR_RESPONSE == "Unable to generate plan. Please consult a healthcare provider."

\* the dict _handle_emergency_response returns, or the exception add_message raised in it
_handle_emergency_responseMut(log, user_id, message, db_ok) ==
    LET saved == add_message(log, user_id, message, EMERGENCY_RESPONSE, db_ok)
    IN  [raised |-> saved.raised,
         log |-> saved.log,
         result |-> [message |-> message,
                     response |-> EMERGENCY_RESPONSE,
                     safety_flags |-> IF log = <<>> THEN <<"EMERGENCY_DETECTED">>
                                      ELSE <<"EMERGENCY_DETECTED", "REPEATED">>,
                     has_emergency |-> TRUE,
                     context_used |-> FALSE]]
_handle_emergency_response(log, user_id, message, db_ok) ==
    LET saved == add_message(log, user_id, message, EMERGENCY_RESPONSE, db_ok)
    IN  [raised |-> saved.raised,
         log |-> saved.log,
         result |-> [message |-> message,
                     response |-> EMERGENCY_RESPONSE,
                     safety_flags |-> <<"EMERGENCY_DETECTED">>,
                     has_emergency |-> TRUE,
                     context_used |-> FALSE]]

\* steps 6-7 of an entry point: the warnings, then the disclaimers of the task
finalize(response, safety_result, patient_context, plan) ==
    LET warned == _add_safety_warnings(response, safety_result, patient_context)
    IN  IF plan
        THEN add_general_disclaimer(add_medication_disclaimer(warned))
        ELSE add_general_disclaimer(warned)

\* step 8 of an entry point: save the finalized text; what the entry point keeps of it
SaveFinal(log, user_id, stored_message, final, safety_result, db_ok, pre) ==
    LET saved == add_message(log, user_id, stored_message, final, db_ok)
    IN  [raised |-> saved.raised, log |-> saved.log,
         steps |-> pre \o <<"completion_call", "safety_check", "finalize", "persist">>,
         final |-> final, safety_flags |-> safety_result.flags,
         severity |-> safety_result.severity]

\* steps 6-8 of an entry point: warnings, disclaimers, save
FinalizeAndSave(log, user_id, stored_message, completion, patient_context, safety_result, db_ok, plan, pre) ==
    SaveFinal(log, user_id, stored_message,
              finalize(completion, safety_result, patient_context, plan),
              safety_result, db_ok, pre)

\* steps 4-8 of an entry point: completion call, safety check, warnings, disclaimers, save
CompleteAndSave(log, user_id, stored_message, completion, patient_context, db_ok, plan, pre) ==
    IF chat_completion_raises
    THEN [raised |-> TRUE, log |-> log, steps |-> pre \o <<"completion_call">>,
          final |-> "", safety_flags |-> <<>>, severity |-> "low"]
    ELSE FinalizeAndSave(log, user_id, stored_message, completion, patient_context,
                         check_response(completion, patient_context), db_ok, plan, pre)

ChatErrorResultMut(message) ==
    [message |-> message, response |-> CHAT_ERROR_RESPONSE,
     safety_flags |-> <<"Error occurred">>, has_emergency |-> TRUE, context_used |-> FALSE]
ChatErrorResult(message) ==
    [message |-> message, response |-> CHAT_ERROR_RESPONSE,
     safety_flags |-> <<"Error occurred">>, has_emergency |-> FALSE, context_used |-> FALSE]

\* what send_contextual_message returns after steps 4-8 (t): the result dict, or the
\* error dict when one of them raised
ChatOutcome(message, t) ==
    IF t.raised
    THEN [result |-> ChatErrorResult(message), log |-> t.log, steps |-> t.steps]
    ELSE [result |-> [message |-> message, response |-> t.final,
                      safety_flags |-> t.safety_flags,
                      has_emergency |-> FALSE, context_used |-> TRUE,
                      severity |-> t.severity],
          log |-> t.log, steps |-> t.steps]

send_contextual_message(log, user_id, message, completion, db_ok) ==
    IF has_emergency[message]
    THEN LET e == _handle_emergency_response(log, user_id, message, db_ok)
             s == <<"emergency_check", "emergency_response", "persist">>
         IN  IF e.raised
             THEN [result |-> ChatErrorResult(message), log |-> e.log, steps |-> s]
             ELSE [result |-> e.result, log |-> e.log, steps |-> s]
    ELSE LET pre == <<"emergency_check", "context_build", "prompt_build">>
         IN  IF FormatRaises(SYSTEM_PROMPT, build_system_prompt)
             THEN [result |-> ChatErrorResult(message), log |-> log, steps |-> pre]
             ELSE ChatOutcome(message,
                              CompleteAndSave(log, user_id, message, completion,
                                              get_patient_context(log, user_id, AllAvailable),
                                              db_ok, FALSE, pre))

SymptomErrorResult(symptoms) ==
    [symptoms |-> symptoms, analysis |-> SYMPTOM_ERROR_RESPONSE,
     safety_flags |-> <<"Error occurred">>, has_emergency |-> FALSE]

SymptomOutcome(symptoms, t) ==
    IF t.raised
    THEN [result |-> SymptomErrorResult(symptoms), log |-> t.log, steps |-> t.steps]
    ELSE [result |-> [symptoms |-> symptoms, analysis |-> t.final,
                      safety_flags |-> t.safety_flags, has_emergency |-> FALSE],
          log |-> t.log, steps |-> t.steps]

analyze_symptoms_with_context(log, user_id, symptoms, completion, db_ok) ==
    IF has_emergency[symptoms]
    THEN LET e == _handle_emergency_response(log, user_id, symptoms, db_ok)
             s == <<"emergency_check", "emergency_response", "persist">>
         IN  IF e.raised
             THEN [result |-> SymptomErrorResult(symptoms), log |-> e.log, steps |-> s]
             ELSE [result |-> e.result, log |-> e.log, steps |-> s]
    ELSE LET pre == <<"emergency_check", "context_build", "prompt_build">>
         IN  IF \/ FormatRaises(SYMPTOM_ANALYSIS_PROMPT, build_symptom_analysis_prompt)
                \/ FormatRaises(SYSTEM_PROMPT, build_system_prompt)
             THEN [result |-> SymptomErrorResult(symptoms), log |-> log, steps |-> pre]
             ELSE SymptomOutcome(symptoms,
                                 CompleteAndSave(log, user_id, "Symptom Analysis: " \o symptoms,
                                                 completion, get_patient_context(log, user_id, AllAvailable),
                                                 db_ok, FALSE, pre))

PlanErrorResult(condition) ==
    [condition |-> condition, treatment_plan |-> PLAN_ERROR_RESPONSE,
     safety_flags |-> <<"Error occurred">>, personalized |-> FALSE]

PlanOutcome(condition, t) ==
    IF t.raised
    THEN [result |-> PlanErrorResult(condition), log |-> t.log, steps |-> t.steps]
    ELSE [result |-> [condition |-> condition, treatment_plan |-> t.final,
                      safety_flags |-> t.safety_flags, personalized |-> TRUE],
          log |-> t.log, steps |-> t.steps]

generate_treatment_plan_with_context(log, user_id, condition, completion, db_ok) ==
    LET pre == <<"context_build", "prompt_build">>
    IN  IF \/ FormatRaises(TREATMENT_PLAN_PROMPT, build_treatment_plan_prompt)
           \/ FormatRaises(SYSTEM_PROMPT, build_system_prompt)
        THEN [result |-> PlanErrorResult(condition), log |-> log, steps |-> pre]
        ELSE PlanOutcome(condition,
                         CompleteAndSave(log, user_id, "Treatment Plan Request: " \o condition,
                                         completion, get_patient_context(log, user_id, AllAvailable),
                                         db_ok, TRUE, pre))

\* ------------------------------------------------------------- the inputs
Completions == {"Rest and drink water.", "Take 500mg of Penicillin."}

\* the stored medical facts a run starts from
StoreFixtures ==
    {[users |-> {1}, allergies |-> <<>>, medications |-> <<>>],
     [users |-> {1, 2},
      allergies |-> <<[user_id |-> 1, allergen |-> "Penicillin", allergen_type |-> "medication",
                      reaction |-> "hives", severity |-> "severe"]>>,
      medications |-> <<>>],
     [users |-> {1, 2},
      allergies |-> <<[user_id |-> 2, allergen |-> "ibuprofen", allergen_type |-> "medication",
                       reaction |-> "rash", severity |-> "mild"],
                      [user_id |-> 2, allergen |-> "water", allergen_type |-> "other",
                       reaction |-> "swelling", severity |-> "life-threatening"]>>,
      medications |-> <<[user_id |-> 2, medication_name |-> "metformin", dosage |-> "500mg",
                         frequency |-> None, route |-> "oral", status |-> "active"]>>]}

NoCall == [entry |-> "none", user_id |-> 0, input |-> "", completion |-> "", db_ok |-> TRUE]
NoResult == [none |-> TRUE]
NoSafety == [has_concerns |-> FALSE, flags |-> <<>>, severity |-> "low",
             recommendations |-> <<>>]
NoPrompt == [entry |-> "none"]
NoRequest == [user_id |-> 0, message |-> "", db_ok |-> TRUE]

\* no send_message is running
ClientIdle ==
    /\ pc = "idle"
    /\ request = NoRequest
    /\ attempts = 0
    /\ sleeps = <<>>
    /\ errors = <<>>

StoreInit ==
    \E store \in StoreFixtures :
        /\ users = store.users
        /\ allergyRows = store.allergies
        /\ medicationRows = store.medications

Init ==
    /\ StoreInit
    /\ chatLog = <<>>
    /\ lastCall = NoCall
    /\ lastResult = NoResult
    /\ steps = <<>>
    /\ sContext = _empty_context
    /\ sContextOf = 0
    /\ sResponse = ""
    /\ sSafety = NoSafety
    /\ sFinal = ""
    /\ sEntry = "none"
    /\ sStage = "none"
    /\ sUnavailable = {}
    /\ sPrompt = NoPrompt
    /\ aiClient = get_ai_client("sk-or-v1")
    /\ ClientIdle

Returned(entry, user_id, input, completion, db_ok, outcome) ==
    LET o == outcome
    IN  /\ Len(o.log) <= MaxLog
        /\ chatLog' = o.log
        /\ lastCall' = [entry |-> entry, user_id |-> user_id, input |-> input,
                        completion |-> completion, db_ok |-> db_ok]
        /\ lastResult' = o.result
        /\ steps' = o.steps
        /\ UNCHANGED <<storeVars, stageVars, clientVars>>

SendContextualMessage ==
    \E user_id \in UserIds, message \in Inputs, completion \in Completions, db_ok \in BOOLEAN :
        Returned("chat", user_id, message, completion, db_ok,
                 send_contextual_message(chatLog, user_id, message, completion, db_ok))

AnalyzeSymptomsWithContext ==
    \E user_id \in UserIds, symptoms \in Inputs, completion \in Completions, db_ok \in BOOLEAN :
        Returned("symptom_analysis", user_id, symptoms, completion, db_ok,
                 analyze_symptoms_with_context(chatLog, user_id, symptoms, completion, db_ok))

GenerateTreatmentPlanWithContext ==
    \E user_id \in UserIds, condition \in Inputs, completion \in Completions, db_ok \in BOOLEAN :
        Returned("treatment_plan", user_id, condition, completion, db_ok,
                 generate_treatment_plan_with_context(chatLog, user_id, condition, completion,
                                                      db_ok))

Next ==
    \/ SendContextualMessage
    \/ AnalyzeSymptomsWithContext
    \/ GenerateTreatmentPlanWithContext

Spec == Init /\ [][Next]_vars

\* ------------------------------------------------------ the stages alone
\* Each stage of the pipeline applied to a raw completion text and a patient
\* context, whatever the steps before it did.
Responses ==
    {"Rest and drink water.",
     "Take 500mg of ibuprofen.",
     "Avoid Penicillin if allergic.",
     "Your medication may need review.",
     "This can be serious.",
     "Start taking penicillin with water; it is urgent and your medicine list matters."}

Symptom(description, logged_at) ==
    [symptom_description |-> description, severity |-> None, logged_at |-> logged_at,
     body_part |-> None]

GivenContexts ==
    {_empty_context,
     [_empty_context EXCEPT
        !.user_id = 1, !.age = "34", !.gender = "female", !.full_name = "Asha Rao",
        !.allergies = <<[allergen |-> "Penicillin", allergen_type |-> "medication",
                         reaction |-> "hives", severity |-> "severe"]>>],
     [_empty_context EXCEPT
        !.user_id = 2, !.age = "61", !.gender = "male", !.full_name = "Ravi Kumar",
        !.allergies = <<[allergen |-> "ibuprofen", allergen_type |-> "medication",
                         reaction |-> "rash", severity |-> "mild"],
                        [allergen |-> "water", allergen_type |-> "other",
                         reaction |-> "swelling", severity |-> "life-threatening"]>>,
        !.current_medications = <<[medication_name |-> "metformin", dosage |-> "500mg",
                                   frequency |-> None, route |-> "oral"]>>],
     [_empty_context EXCEPT
        !.user_id = 2, !.age = "61", !.gender = "male", !.full_name = "Ravi Kumar",
        !.current_medications = <<[medication_name |-> "metformin", dosage |-> "500mg",
                                   frequency |-> None, route |-> "oral"]>>],
     [_empty_context EXCEPT
        !.user_id = 1, !.age = "34", !.gender = "female", !.full_name = "Asha Rao",
        !.current_medications = <<[medication_name |-> "salbutamol", dosage |-> "100mcg",
                                   frequency |-> "as needed", route |-> "inhaled"]>>,
        !.medical_history = <<[condition_name |-> "asthma", status |-> "active",
                               severity |-> "mild", diagnosed_date |-> None],
                              [condition_name |-> "migraine", status |-> "chronic",
                               severity |-> None, diagnosed_date |-> "2020-03-01"]>>,
        !.recent_symptoms =
            <<Symptom("cough", "2026-10-06"), Symptom("fever", "2026-10-05"),
              Symptom("headache", "2026-10-04"), Symptom("nausea", "2026-10-03"),
              Symptom("fatigue", "2026-10-02"), Symptom("sore throat", "2026-10-01")>>,
        !.conversation_context =
            <<[message |-> "What is a cold?", response |-> "A cold is a viral infection."],
              [message |-> "I feel tired today", response |-> "Rest and drink water."]>>]}

EntryPoints == {"chat", "symptom_analysis", "treatment_plan"}

\* the conversation logs a stage run starts from: none, or one where user 1 has more
\* exchanges than a context holds
GivenLogs ==
    {<<>>,
     <<Exchange(1, "first", "one"), Exchange(1, "second", "two"), Exchange(2, "other", "zero"),
       Exchange(1, "third", "three"), Exchange(1, "fourth", "four"),
       Exchange(1, "fifth", "five"), Exchange(1, "sixth", "six")>>}

InitStages ==
    /\ StoreInit
    /\ chatLog \in GivenLogs
    /\ lastCall = NoCall
    /\ lastResult = NoResult
    /\ steps = <<>>
    /\ sContext \in GivenContexts
    /\ sContextOf = 0
    /\ sResponse \in Responses
    /\ sSafety = NoSafety
    /\ sFinal = ""
    /\ sEntry = "none"
    /\ sStage = "context"
    /\ sUnavailable = {}
    /\ sPrompt = NoPrompt
    /\ aiClient = get_ai_client("sk-or-v1")
    /\ ClientIdle

\* patient_context = self.context_service.get_patient_context(user_id)
GetPatientContext ==
    \E user_id \in UserIds, unavailable \in {AllAvailable} \cup {{source} : source \in Sources} :
        /\ sStage = "context"
        /\ sContext' = get_patient_context(chatLog, user_id, unavailable)
        /\ sContextOf' = user_id
        /\ sUnavailable' = unavailable
        /\ UNCHANGED <<sResponse, sSafety, sFinal, sEntry, sStage, sPrompt, storeVars, callVars,
                       clientVars>>

\* safety_result = self.safety_checker.check_response(ai_response, patient_context)
CheckResponse ==
    /\ sStage = "context"
    /\ sSafety' = check_response(sResponse, sContext)
    /\ sStage' = "checked"
    /\ UNCHANGED <<sContext, sContextOf, sResponse, sFinal, sEntry, sUnavailable, sPrompt, storeVars, callVars, clientVars>>

Finalized(entry) ==
    /\ sStage = "checked"
    /\ sFinal' = finalize(sResponse, sSafety, sContext, entry = "treatment_plan")
    /\ sEntry' = entry
    /\ sStage' = "final"
    /\ UNCHANGED <<sContext, sContextOf, sResponse, sSafety, sUnavailable, sPrompt, storeVars, callVars, clientVars>>

FinalizeChat == Finalized("chat")
FinalizeSymptomAnalysis == Finalized("symptom_analysis")
FinalizeTreatmentPlan == Finalized("treatment_plan")

\* the finalizer of the same task run once more, on its own output
FinalizeAgain ==
    /\ sStage = "final"
    /\ sFinal' = finalize(sFinal, sSafety, sContext, sEntry = "treatment_plan")
    /\ sStage' = "again"
    /\ UNCHANGED <<sContext, sContextOf, sResponse, sSafety, sEntry, sUnavailable, sPrompt, storeVars, callVars, clientVars>>

\* the build function of one task type is called with the context at hand
BuildPrompt ==
    \E task \in Tasks, input \in Inputs :
        /\ sStage = "context"
        /\ sPrompt' = [entry |-> task, input |-> input,
                       kwargs |-> ArgumentsOf(task, input, sContext),
                       raised |-> FormatRaises(TemplateOf(task),
                                               DOMAIN ArgumentsOf(task, input, sContext))]
        /\ sStage' = "prompt"
        /\ UNCHANGED <<sContext, sContextOf, sResponse, sSafety, sFinal, sEntry, sUnavailable,
                       storeVars, callVars, clientVars>>

\* every list-formatting helper is applied: those of PromptFormatter to the lists of
\* the context at hand, the summaries of MedicalContextService to one user's rows
FormatLists ==
    \E user_id \in UserIds :
        /\ sStage = "context"
        /\ sPrompt' =
              [entry |-> "format", user_id |-> user_id,
               medical_history |-> format_medical_history(sContext.medical_history),
               current_medications |-> format_medications(sContext.current_medications),
               allergies |-> format_allergies(sContext.allergies),
               recent_symptoms |-> format_recent_symptoms(sContext.recent_symptoms),
               conversation_context |->
                   format_conversation_context(sContext.conversation_context),
               medical_history_summary |-> get_medical_history_summary(user_id),
               current_medications_summary |-> get_current_medications_summary(user_id),
               allergies_summary |-> get_allergies_summary(user_id)]
        /\ sStage' = "formatted"
        /\ UNCHANGED <<sContext, sContextOf, sResponse, sSafety, sFinal, sEntry, sUnavailable,
                       storeVars, callVars, clientVars>>

\* the texts the emergency check is given: the inputs of the entry points, a negated
\* sentence, a text with two keywords and one with the words of a keyword apart
EmergencyTexts ==
    Inputs \cup {"I do not have chest pain", "Seizure after an Overdose",
                 "my chest hurts, pain in the arm"}

\* has_emergency = self.safety_checker.detect_emergency_symptoms(message)
DetectEmergencySymptoms ==
    \E text \in EmergencyTexts :
        /\ sStage = "context"
        /\ sPrompt' = [entry |-> "emergency_check", text |-> text,
                       has_emergency |-> detect_emergency_symptoms(text)]
        /\ sStage' = "detected"
        /\ UNCHANGED <<sContext, sContextOf, sResponse, sSafety, sFinal, sEntry, sUnavailable,
                       storeVars, callVars, clientVars>>

NextStages ==
    \/ GetPatientContext
    \/ DetectEmergencySymptoms
    \/ BuildPrompt
    \/ FormatLists
    \/ CheckResponse
    \/ FinalizeChat
    \/ FinalizeSymptomAnalysis
    \/ FinalizeTreatmentPlan
    \/ FinalizeAgain

SpecStages == InitStages /\ [][NextStages]_vars

\* ------------------------------------------------------------ ChatService
MAX_MESSAGE_LENGTH == 5000

\* InputValidator.validate_message: sanitize_text, then the empty check (the texts
\* drawn here hold no control characters, so the re.sub changes nothing)
validate_message(message) ==
    LET text == Strip(message)
    IN  IF Len(text) > MAX_MESSAGE_LENGTH \/ Len(text) = 0
        THEN [raised |-> TRUE, message |-> text]
        ELSE [raised |-> FALSE, message |-> text]

UNAVAILABLE_RESPONSE == "I'm currently unavailable. Please try again later."

\* ChatService.send_message from "Save to database" on: the dict it returns, or the
\* exception of add_message it logs and raises again
send_message_save(log, user_id, message, response, db_ok) ==
    LET saved == add_message(log, user_id, message, response, db_ok)
    IN  IF saved.raised
        THEN [log |-> saved.log, result |-> [raised |-> "SQLAlchemyError"]]
        ELSE [log |-> saved.log,
              result |-> [id |-> Len(saved.log), message |-> message, response |-> response]]

\* the texts passed to send_message, the responses of the completion API and the
\* messages of the exceptions it raises
Messages == {"I feel tired today", "  ", " What is a cold? "}
ApiResponses ==
    {[choices |-> 1, content |-> "Rest and drink water."],
     [choices |-> 1, content |-> ""],
     [choices |-> 0, content |-> ""]}
ApiErrors == {"Connection error.", "Error code: 401 - No auth credentials found"}

\* ChatService reads no medical facts: its runs start from a store of users only.
\* the clients ChatService can hold: none, the configured one, or one built with arguments
Clients ==
    {get_ai_client(""), get_ai_client("sk-or-v1")}
        \cup {HealthAIClient_init(m, d) : m \in 1..2, d \in 0..1}

InitClient ==
    /\ users = UserIds
    /\ allergyRows = <<>>
    /\ medicationRows = <<>>
    /\ chatLog = <<>>
    /\ lastCall = NoCall
    /\ lastResult = NoResult
    /\ steps = <<>>
    /\ sContext = _empty_context
    /\ sContextOf = 0
    /\ sResponse = ""
    /\ sSafety = NoSafety
    /\ sFinal = ""
    /\ sEntry = "none"
    /\ sStage = "none"
    /\ sUnavailable = {}
    /\ sPrompt = NoPrompt
    /\ aiClient \in Clients
    /\ ClientIdle

\* send_message returns (or raises) with this response text
ReturnResponse(response) ==
    LET r == send_message_save(chatLog, request.user_id, request.message, response,
                               request.db_ok)
    IN  /\ chatLog' = r.log
        /\ lastResult' = r.result
        /\ pc' = "idle"

\* ChatService.send_message up to the first completion call
SendMessage ==
    \E user_id \in UserIds, message \in Messages, db_ok \in BOOLEAN :
        LET v == validate_message(message)
        IN  /\ pc = "idle"
            /\ Len(chatLog) < MaxLog
            /\ lastCall' = [entry |-> "send_message", user_id |-> user_id, input |-> message,
                            completion |-> "", db_ok |-> db_ok]
            /\ attempts' = 0
            /\ sleeps' = <<>>
            /\ errors' = <<>>
            /\ IF v.raised
               THEN /\ lastResult' = [raised |-> "ValidationError"]
                    /\ request' = NoRequest
                    /\ UNCHANGED <<chatLog, pc>>
               ELSE /\ request' = [user_id |-> user_id, message |-> v.message, db_ok |-> db_ok]
                    /\ IF aiClient = NoClient
                       THEN /\ chatLog' = send_message_save(chatLog, user_id, v.message,
                                                            UNAVAILABLE_RESPONSE, db_ok).log
                            /\ lastResult' = send_message_save(chatLog, user_id, v.message,
                                                               UNAVAILABLE_RESPONSE, db_ok).result
                            /\ pc' = "idle"
                       ELSE /\ lastResult' = NoResult
                            /\ pc' = "calling"
                            /\ UNCHANGED chatLog
            /\ UNCHANGED <<aiClient, steps, storeVars, stageVars>>

\* self.client.chat.completions.create(...) returns: _make_request returns at once
CreateReturns ==
    \E response \in ApiResponses :
        /\ pc = "calling"
        /\ attempts' = attempts + 1
        /\ ReturnResponse(ResponseContent(response))
        /\ UNCHANGED <<sleeps, errors, request, lastCall, aiClient, steps, storeVars, stageVars>>

\* it raises: sleep and go round again, or give up after the last attempt
CreateRaises ==
    \E e \in ApiErrors :
        /\ pc = "calling"
        /\ attempts' = attempts + 1
        /\ errors' = Append(errors, e)
        /\ IF RetriesLeft(aiClient, attempts)
           THEN /\ pc' = "sleeping"
                /\ UNCHANGED <<chatLog, lastResult>>
           ELSE ReturnResponse(AllRetriesFailed(e))
        /\ UNCHANGED <<sleeps, request, lastCall, aiClient, steps, storeVars, stageVars>>

\* time.sleep(self.retry_delay * (attempt + 1)) after the attempt that raised
Sleep ==
    /\ pc = "sleeping"
    /\ sleeps' = Append(sleeps, RetryDelay(aiClient.retry_delay, attempts - 1))
    /\ pc' = "calling"
    /\ UNCHANGED <<attempts, errors, request, lastCall, lastResult, chatLog, aiClient, steps,
                   storeVars, stageVars>>

\* ChatService.clear_history
ClearHistory ==
    \E user_id \in UserIds, db_ok \in BOOLEAN :
        /\ pc = "idle"
        /\ lastCall' = [entry |-> "clear_history", user_id |-> user_id, input |-> "",
                        completion |-> "", db_ok |-> db_ok]
        /\ chatLog' = delete_user_history(chatLog, user_id, db_ok).log
        /\ lastResult' =
              IF delete_user_history(chatLog, user_id, db_ok).raised
              THEN [raised |-> "SQLAlchemyError"]
              ELSE [count |-> delete_user_history(chatLog, user_id, db_ok).count]
        /\ request' = NoRequest
        /\ attempts' = 0
        /\ sleeps' = <<>>
        /\ errors' = <<>>
        /\ UNCHANGED <<aiClient, pc, steps, storeVars, stageVars>>

NextClient ==
    \/ SendMessage
    \/ ClearHistory
    \/ CreateReturns
    \/ CreateRaises
    \/ Sleep

SpecClient == InitClient /\ [][NextClient]_vars

\* ---------------------------------------------------------------- claims
Range(seq) == {seq[i] : i \in 1..Len(seq)}

EmergencyInput == lastCall.entry # "none" /\ detect_emergency_symptoms(lastCall.input)

TookEmergencyPath(st) ==
    /\ "emergency_response" \in Range(st)
    /\ "context_build" \notin Range(st)
    /\ "completion_call" \notin Range(st)

CALL_INSTRUCTION == "Call emergency services (911) immediately"

\* C1: every message to send_contextual_message that contains an emergency keyword,
\* in any letter case and for any patient, is answered with has_emergency = true and
\* a response that contains the instruction to call emergency services.
C1_EmergencyMessageIsFlagged ==
    (lastCall.entry = "chat" /\ EmergencyInput) =>
        /\ lastResult.has_emergency = TRUE
        /\ Contains(lastResult.response, CALL_INSTRUCTION)

\* C2: a send_contextual_message call whose message contains an emergency keyword
\* does no context aggregation and no completion call, returns the canned emergency
\* text with safety_flags = [EMERGENCY_DETECTED], and appends exactly one exchange,
\* the message with the canned text, to the conversation log.
C2_EmergencyPathIsTerminalFast ==
    [][(lastCall'.entry = "chat" /\ EmergencyInput') =>
          /\ "context_build" \notin Range(steps')
          /\ "completion_call" \notin Range(steps')
          /\ lastResult'.response = EMERGENCY_RESPONSE
          /\ lastResult'.safety_flags = <<"EMERGENCY_DETECTED">>
          /\ chatLog' = Append(chatLog, Exchange(lastCall'.user_id, lastCall'.input,
                                                 EMERGENCY_RESPONSE))]_vars

FailedBeforePersist(st) ==
    /\ st # <<>>
    /\ st[Len(st)] \in {"context_build", "prompt_build", "completion_call", "safety_check",
                        "finalize"}

DegradedText(entry) ==
    IF entry = "chat" THEN CHAT_ERROR_RESPONSE
    ELSE IF entry = "symptom_analysis" THEN SYMPTOM_ERROR_RESPONSE
    ELSE PLAN_ERROR_RESPONSE

ResultText(entry, result) ==
    IF entry = "chat" THEN result.response
    ELSE IF entry = "symptom_analysis" THEN result.analysis
    ELSE result.treatment_plan

\* C4: when a step from context build through finalize fails, the entry point
\* returns the generic degraded-service result with safety_flags = ["Error occurred"]
\* and has_emergency = false (personalized = false for a treatment plan), and the
\* conversation log is left as it was.
C4_FailureReturnsDegradedResult ==
    [][(lastCall'.entry \in EntryPoints /\ FailedBeforePersist(steps')) =>
          /\ lastResult'.safety_flags = <<"Error occurred">>
          /\ ResultText(lastCall'.entry, lastResult') = DegradedText(lastCall'.entry)
          /\ lastCall'.entry \in {"chat", "symptom_analysis"} => lastResult'.has_emergency = FALSE
          /\ lastCall'.entry = "treatment_plan" => lastResult'.personalized = FALSE
          /\ chatLog' = chatLog]_vars

C4_Witness ==
    /\ lastCall.entry = "chat"
    /\ steps = <<"emergency_check", "context_build", "prompt_build">>
    /\ lastResult.safety_flags = <<"Error occurred">>
    /\ chatLog # <<>>

\* C5: every result of send_contextual_message carries the six fields message,
\* response, safety_flags, has_emergency, context_used and severity.
C5_ChatResultHasSixFields ==
    lastCall.entry = "chat" =>
        DOMAIN lastResult = {"message", "response", "safety_flags", "has_emergency",
                             "context_used", "severity"}

\* C6: every result of analyze_symptoms_with_context carries the fields symptoms,
\* analysis, safety_flags and has_emergency.
C6_SymptomResultHasFourFields ==
    lastCall.entry = "symptom_analysis" =>
        {"symptoms", "analysis", "safety_flags", "has_emergency"} \subseteq DOMAIN lastResult

\* the allergens of the stored allergies of a user that are severe or life-threatening
SevereAllergens(user_id) ==
    {allergyRows[i].allergen :
        i \in {j \in 1..Len(allergyRows) :
                  /\ allergyRows[j].user_id = user_id
                  /\ allergyRows[j].severity \in {"severe", "life-threatening"}}}

\* an allergy-alert block that names the allergen stands before the body
AlertBeforeBody(final, allergen, body) ==
    \E i \in 1..Len(final) :
        /\ \/ At(final, i, "ALLERGY ALERT: Patient allergic to " \o allergen)
           \/ At(final, i, "ALLERGY ALERT: Patient allergic to " \o Lower(allergen))
        /\ \E j \in (i + 1)..Len(final) : At(final, j, body)

\* C7: when the context was aggregated for a patient who has a severe or
\* life-threatening allergy stored and the model output mentions that allergen, the
\* finalized response has an allergy-alert block naming the allergen before the body.
C7_SevereAllergenMentionGetsAlert ==
    (sStage = "final" /\ sContextOf # 0) =>
        \A allergen \in SevereAllergens(sContextOf) :
            Contains(sResponse, allergen) => AlertBeforeBody(sFinal, allergen, sResponse)

\* C8: every finalized response ends with the general disclaimer, and a finalized
\* treatment plan ends with the body, then the medication disclaimer, then the
\* general disclaimer.
C8_DisclaimersComeLast ==
    sStage = "final" =>
        /\ EndsWith(sFinal, GENERAL_DISCLAIMER)
        /\ sEntry = "treatment_plan" =>
              EndsWith(sFinal, sResponse \o MEDICATION_DISCLAIMER \o GENERAL_DISCLAIMER)

C8_Witness ==
    /\ sStage = "final"
    /\ sEntry = "treatment_plan"
    /\ sSafety.severity = "high"
    /\ Len(sFinal) > Len(sResponse)

\* C9: running the finalizer of a task a second time on its own output, with the
\* same SafetyResult, yields the same text.
C9_FinalizeIsIdempotent ==
    [][(sStage = "final" /\ sStage' = "again") => sFinal' = sFinal]_vars

FiredHigh ==
    \/ _check_medication_prescription(sResponse)
    \/ _check_allergy_conflicts(sResponse, sContext) # <<>>

FiredMedium ==
    \/ _check_medication_interactions(sResponse, sContext) # <<>>
    \/ _needs_emergency_disclaimer(sResponse)

\* C10: the severity of check_response is high if the prescription-language or the
\* allergy-conflict check fired, otherwise medium if the interaction-reminder or the
\* emergency-disclaimer check fired, otherwise low.
C10_SeverityIsMaximum ==
    sStage = "checked" =>
        sSafety.severity = IF FiredHigh THEN "high" ELSE IF FiredMedium THEN "medium" ELSE "low"

C10_Witness ==
    /\ sStage = "checked"
    /\ _check_allergy_conflicts(sResponse, sContext) # <<>>
    /\ _check_medication_interactions(sResponse, sContext) # <<>>
    /\ _needs_emergency_disclaimer(sResponse)
    /\ sSafety.severity = "high"

\* C11: in every result of check_response has_concerns is true exactly when flags is
\* non-empty, and severity is low exactly when flags is empty.
C11_ConcernsIffFlags ==
    sStage = "checked" =>
        /\ sSafety.has_concerns <=> sSafety.flags # <<>>
        /\ sSafety.severity = "low" <=> sSafety.flags = <<>>

C11_Witness ==
    /\ sStage = "checked"
    /\ sSafety.flags = <<INTERACTION_FLAG>>
    /\ sSafety.has_concerns
    /\ sSafety.severity = "medium"

RECOMMEND_PRESCRIPTION ==
    "Remove specific medication names and dosages. Use general medication classes instead."
RECOMMEND_ALLERGY == "Add prominent allergy warning at the beginning of response."
RECOMMEND_INTERACTION ==
    "Add reminder to discuss with healthcare provider about current medications."
RECOMMEND_EMERGENCY == "Add clear guidance on when to seek emergency medical care."

\* C12: the recommendations of check_response hold the prescription, allergy,
\* interaction and emergency recommendation exactly when the prescription-language,
\* allergy-conflict, interaction-reminder and emergency-disclaimer sub-check,
\* respectively, produced a flag.
C12_RecommendationPerFlagCategory ==
    sStage = "checked" =>
        LET recommended == Range(sSafety.recommendations)
        IN  /\ RECOMMEND_PRESCRIPTION \in recommended
                <=> _check_medication_prescription(sResponse)
            /\ RECOMMEND_ALLERGY \in recommended
                <=> _check_allergy_conflicts(sResponse, sContext) # <<>>
            /\ RECOMMEND_INTERACTION \in recommended
                <=> _check_medication_interactions(sResponse, sContext) # <<>>
            /\ RECOMMEND_EMERGENCY \in recommended
                <=> _needs_emergency_disclaimer(sResponse)

\* a send_message that went to the completion API is running or was the last call
Requested == lastCall.entry = "send_message" /\ aiClient # NoClient /\ request # NoRequest

\* the request is over and every attempt of it raised
Exhausted == Requested /\ pc = "idle" /\ Len(errors) = attempts

\* C13: _make_request never makes more than max_retries attempts, and exactly
\* max_retries when every attempt fails; it waits retry_delay * k after the k-th
\* failed attempt, k = 1 .. max_retries - 1, and not after the last; a successful
\* attempt ends the loop at once; and one request saves at most one exchange, when
\* the loop is over (nothing but the completion call is repeated).
C13_BoundedRetries ==
    /\ [](Requested =>
            /\ attempts <= aiClient.max_retries
            /\ sleeps = [k \in 1..Len(sleeps) |-> aiClient.retry_delay * k]
            /\ pc = "calling" => Len(sleeps) = attempts /\ Len(errors) = attempts
            /\ pc = "sleeping" => Len(sleeps) = attempts - 1 /\ Len(errors) = attempts
            /\ Exhausted =>
                  attempts = aiClient.max_retries /\ Len(sleeps) = aiClient.max_retries - 1
            /\ (pc = "idle" /\ Len(errors) < attempts) =>
                  Len(errors) = attempts - 1 /\ Len(sleeps) = attempts - 1)
    /\ [][(pc = "calling" /\ chatLog' # chatLog) =>
            /\ pc' = "idle"
            /\ Len(chatLog') = Len(chatLog) + 1]_vars

C13_Witness ==
    /\ Exhausted
    /\ attempts = AI_MAX_RETRIES
    /\ sleeps = <<AI_RETRY_DELAY, AI_RETRY_DELAY * 2>>

\* C14: when the completion call has exhausted its retries, the text returned to the
\* user and saved for them holds no error message of a failed attempt: it is one
\* fixed text whatever the failure was.
C14_ExhaustedRetriesGiveFixedText ==
    (Exhausted /\ "response" \in DOMAIN lastResult) =>
        /\ \A e \in ApiErrors : ~Contains(lastResult.response, e)
        /\ \A e \in ApiErrors : ~Contains(chatLog[Len(chatLog)].response, e)

ListFields ==
    {"medical_history", "current_medications", "allergies", "recent_symptoms",
     "conversation_context"}

\* C15: for a patient id with no user record get_patient_context returns the
\* fully-empty context: age and gender null and every list field the empty list.
C15_MissingPatientGivesEmptyContext ==
    (sStage = "context" /\ sContextOf # 0 /\ sContextOf \notin users) =>
        /\ sContext.age = None
        /\ sContext.gender = None
        /\ \A field \in ListFields : sContext[field] = <<>>

C15_Witness ==
    /\ sStage = "context"
    /\ sContextOf = 2
    /\ users = {1}
    /\ sUnavailable = {}
    /\ sContext.age = None

\* the source each list field of the context is read from
SourceOf(field) ==
    CASE field = "medical_history" -> "conditions"
      [] field = "current_medications" -> "medications"
      [] field = "allergies" -> "allergies"
      [] field = "recent_symptoms" -> "symptoms"
      [] field = "conversation_context" -> "exchanges"

\* C16: when exactly one of the sources conditions, medications, allergies, symptoms,
\* exchanges is unavailable for an existing patient, the context has that list
\* empty and age, gender and every other list as with all sources available.
C16_OneSourceDownEmptiesOneField ==
    (/\ sStage = "context"
     /\ sContextOf \in users
     /\ Cardinality(sUnavailable) = 1
     /\ "users" \notin sUnavailable) =>
        LET complete == get_patient_context(chatLog, sContextOf, AllAvailable)
        IN  /\ sContext.age = complete.age
            /\ sContext.gender = complete.gender
            /\ \A field \in ListFields :
                  sContext[field] =
                      IF SourceOf(field) \in sUnavailable THEN <<>> ELSE complete[field]

\* C17: for each task type and every patient context the prompt is rendered: every
\* placeholder of the template has a keyword argument in the build function that
\* renders it, so str.format does not raise.
C17_EveryPlaceholderSupplied ==
    sStage = "prompt" => ~sPrompt.raised

\* C18: an age or gender that is missing from the context, or present with the
\* value None, is passed to the template as the text Unknown.
C18_MissingAgeGenderRenderUnknown ==
    (sStage = "prompt" /\ "age" \in DOMAIN sPrompt.kwargs) =>
        /\ sContext.age = None => sPrompt.kwargs.age = "Unknown"
        /\ sContext.gender = None => sPrompt.kwargs.gender = "Unknown"

\* the number of non-empty lines of a text
LineCount(t) ==
    Cardinality({i \in 1..Len(t) :
                    /\ SubSeq(t, i, i) # "\n"
                    /\ (i = 1 \/ SubSeq(t, i - 1, i - 1) = "\n")})

\* a list helper's text: the empty-state string, or one line per rendered item
RendersList(text, items, empty_state, cap) ==
    IF items = <<>> THEN text = empty_state
    ELSE LineCount(text) = Len(FirstItems(items, cap))

C20_SameCallSameFlags ==
    [][(lastCall.entry = "chat" /\ lastCall' = lastCall) =>
          /\ lastResult'.safety_flags = lastResult.safety_flags
          /\ check_response(lastCall.completion,
                            get_patient_context(chatLog', lastCall.user_id, AllAvailable)).flags
                 = check_response(lastCall.completion,
                                  get_patient_context(chatLog, lastCall.user_id,
                                                      AllAvailable)).flags]_vars

\* the same chat call was made twice in a row and each appended its exchange
C20_Witness ==
    /\ lastCall.entry = "chat"
    /\ Len(chatLog) = 2
    /\ chatLog[1] = chatLog[2]
    /\ chatLog[2].user_id = lastCall.user_id
    /\ chatLog[2].message = lastCall.input
    /\ lastResult.safety_flags = <<"EMERGENCY_DETECTED">>

\* log is an initial part of longer
IsPrefix(log, longer) ==
    Len(log) <= Len(longer) /\ SubSeq(longer, 1, Len(log)) = log

\* C21 as stated: the conversation log is append-only; every exchange once appended
\* stays in the log with the same message and response.
C21_LogOnlyGrows ==
    [][IsPrefix(chatLog, chatLog')]_vars

\* C21: send_message only appends to the conversation log: every exchange stays, with
\* the same message and response.  clear_history (delete_user_history) is the one
\* operation that removes exchanges: it removes all exchanges of its user, keeps those
\* of every other user unchanged and in order, and returns the number removed; when
\* its delete fails the log is unchanged.
C21_LogGrowsUnlessCleared ==
    [][IF lastCall'.entry = "clear_history"
       THEN /\ RowsOf(chatLog', lastCall'.user_id) =
                  (IF lastCall'.db_ok THEN <<>> ELSE RowsOf(chatLog, lastCall'.user_id))
            /\ \A user_id \in UserIds \ {lastCall'.user_id} :
                  RowsOf(chatLog', user_id) = RowsOf(chatLog, user_id)
            /\ lastCall'.db_ok => lastResult'.count = Len(chatLog) - Len(chatLog')
       ELSE IsPrefix(chatLog, chatLog')]_vars

\* clear_history removed one user's exchange and left another user's in the log
C21_Witness ==
    /\ lastCall.entry = "clear_history"
    /\ "count" \in DOMAIN lastResult
    /\ lastResult.count = 1
    /\ Len(chatLog) = 1
    /\ chatLog[1].user_id # lastCall.user_id

\* C22: an input that is empty after trimming, or longer than the maximum length, is
\* rejected with a ValidationError before any context aggregation, completion call or
\* append to the conversation log.
C22_InvalidInputRejectedFirst ==
    (lastCall.entry \in EntryPoints /\ validate_message(lastCall.input).raised) =>
        /\ "context_build" \notin Range(steps)
        /\ "completion_call" \notin Range(steps)
        /\ "persist" \notin Range(steps)
        /\ lastResult = [raised |-> "ValidationError"]

\* C23: every context returned by get_patient_context has at most 10 entries in
\* recent_symptoms and at most 5 in conversation_context, the newest exchanges of the
\* patient first, and each of its list fields is a list.
C23_ContextListsCapped ==
    sContextOf # 0 =>
        /\ Len(sContext.recent_symptoms) <= 10
        /\ Len(sContext.conversation_context) <= 5
        /\ \A field \in ListFields : Len(sContext[field]) >= 0
        /\ LET mine == Reverse(RowsOf(chatLog, sContextOf))
           IN  \A i \in 1..Len(sContext.conversation_context) :
                  sContext.conversation_context[i].message = mine[i].message

\* the patient has six exchanges and the context holds the five newest
C23_Witness ==
    /\ sContextOf = 1
    /\ Len(RowsOf(chatLog, 1)) = 6
    /\ Len(sContext.conversation_context) = 5
    /\ sContext.conversation_context[1].message = "sixth"
    /\ sContext.conversation_context[5].message = "second"

\* C24: detect_emergency_symptoms(text) is true exactly when some keyword of the
\* emergency-keyword set occurs in the lower-cased text, whatever else the text says,
\* and the result is the same with the keywords in another order.
C24_EmergencyIffKeywordInLoweredText ==
    sStage = "detected" =>
        /\ sPrompt.has_emergency =
              (\E keyword \in Range(EMERGENCY_KEYWORDS) : Contains(Lower(sPrompt.text), keyword))
        /\ sPrompt.has_emergency =
              (FirstKeyword(Lower(sPrompt.text), Reverse(EMERGENCY_KEYWORDS), 1) # 0)

\* a keyword inside a negated sentence was detected
C24_Witness ==
    /\ sStage = "detected"
    /\ sPrompt.text = "I do not have chest pain"
    /\ sPrompt.has_emergency

\* the steps of a non-emergency request, in the order of the pipeline
Pipeline ==
    <<"context_build", "prompt_build", "completion_call", "safety_check", "finalize", "persist">>

\* the steps of a request after its emergency check, if it makes one
AfterEmergencyCheck(st) ==
    IF st # <<>> /\ st[1] = "emergency_check" THEN Tail(st) ELSE st

RECURSIVE AlertBlocks(_)
AlertBlocks(flags) ==
    IF flags = <<>> THEN ""
    ELSE AlertBlocks(Tail(flags))
             \o (IF Contains(Head(flags), "ALLERGY ALERT") THEN AlertBlock(Head(flags)) ELSE "")

\* C26: the finalized text is a concatenation around the unchanged model response:
\* the emergency-care warning first when the severity is high, then the allergy-alert
\* blocks, then the response, then the medication disclaimer of a treatment plan, then
\* the general disclaimer; nothing added by one step is removed, cut or moved by a
\* later one.
C26_FinalizeOnlyConcatenates ==
    sStage = "final" =>
        /\ Contains(sFinal, sResponse)
        /\ sSafety.severity = "high" => StartsWith(sFinal, EMERGENCY_WARNING)
        /\ sFinal = (IF sSafety.severity = "high" THEN EMERGENCY_WARNING ELSE "")
                        \o AlertBlocks(sSafety.flags)
                        \o sResponse
                        \o (IF sEntry = "treatment_plan" THEN MEDICATION_DISCLAIMER ELSE "")
                        \o GENERAL_DISCLAIMER

\* a finalized text with the emergency warning, an allergy alert and the disclaimers
C26_Witness ==
    /\ sStage = "final"
    /\ sSafety.severity = "high"
    /\ AlertBlocks(sSafety.flags) # ""
    /\ sEntry = "treatment_plan"
    /\ StartsWith(sFinal, EMERGENCY_WARNING \o AlertBlocks(sSafety.flags) \o sResponse)

\* C27: the conversation summary of a follow-up prompt is "First conversation with
\* patient" for an empty history, and otherwise is built from the 3 most recent
\* exchanges (fewer when fewer exist), also for the newest-first conversation_context
\* of an aggregated context.
C27_SummaryOfMostRecentExchanges ==
    (sStage = "prompt" /\ sPrompt.entry = "follow_up") =>
        LET summary == sPrompt.kwargs.previous_conversation_summary
            newest == Reverse(RowsOf(chatLog, sContextOf))
        IN  /\ sContext.conversation_context = <<>> =>
                  summary = "First conversation with patient"
            /\ (sContextOf # 0 /\ sContext.conversation_context # <<>>) =>
                  /\ LineCount(summary) = 2 * Len(FirstItems(newest, 3))
                  /\ \A i \in 1..Len(FirstItems(newest, 3)) :
                        Contains(summary, "Patient: " \o newest[i].message \o "...")

\* C28: on the emergency path a failure to append the exchange to the conversation log
\* does not change the outcome: the entry point still returns has_emergency = true
\* with the canned emergency message, not the generic error result.
C28_EmergencyOutcomeSurvivesFailedAppend ==
    (/\ lastCall.entry \in {"chat", "symptom_analysis"}
     /\ EmergencyInput
     /\ ~lastCall.db_ok) =>
        /\ lastResult.has_emergency = TRUE
        /\ "response" \in DOMAIN lastResult
        /\ lastResult.response = EMERGENCY_RESPONSE

PositionsOf(log, user_id) == {i \in 1..Len(log) : log[i].user_id = user_id}

Min(a, b) == IF a <= b THEN a ELSE b

HistoryLimits == 0..(MaxLog + 1)

\* C30: after any sequence of add_message calls, get_user_history(user, limit) returns
\* only exchanges of that user, newest first, and exactly min(n, limit) of them, n
\* being the number of exchanges added for the user; every successful add_message
\* returns an exchange with an id and the given user id.
C30_HistoryIsOwnNewestFirstAndCapped ==
    \A user_id \in UserIds :
        /\ \A limit \in HistoryLimits :
               LET history == get_user_history(chatLog, user_id, limit)
                   added == PositionsOf(chatLog, user_id)
               IN  /\ Len(history) = Min(Cardinality(added), limit)
                   /\ \A k \in 1..Len(history) :
                          /\ history[k].user_id = user_id
                          /\ \E i \in added :
                                 /\ Cardinality({j \in added : j >= i}) = k
                                 /\ history[k] = chatLog[i]
        /\ LET saved == add_message(chatLog, user_id, "Message 1", "Response 1", TRUE)
           IN  /\ ~saved.raised
               /\ saved.chat.id \in Nat \ {0}
               /\ saved.chat.user_id = user_id
               /\ get_user_history(saved.log, user_id, 1) =
                      <<Exchange(user_id, "Message 1", "Response 1")>>

\* a patient with more exchanges than the limit asked for, and an exchange of the
\* other patient added between them
C30_Witness ==
    /\ Len(chatLog) = MaxLog
    /\ lastCall.entry \in {"chat", "symptom_analysis"}
    /\ \E user_id \in UserIds :
           /\ Cardinality(PositionsOf(chatLog, user_id)) = 2
           /\ chatLog[1] # chatLog[2]
           /\ Len(get_user_history(chatLog, user_id, 1)) = 1
====
